---- MODULE Spec2Model ----
(***************************************************************************)
(* BCE-MOEA/D (bce_moead.py): the PC archive, the NPC population, the      *)
(* ideal point and the generation step of BCEMOEAD.                        *)
(*                                                                         *)
(* An individual is identified by its decision vector X, an index into     *)
(* EvalTable; its objective vector is F(x) = EvalTable[x].  A population   *)
(* is a sequence of individuals.  Euclidean distances are kept in fixed    *)
(* point, in units of 1/SCALE, rounded down; products of distance ratios   *)
(* are kept in units of 1/PREC, rounded down after every multiplication.   *)
(***************************************************************************)
EXTENDS Integers, Sequences, FiniteSets, TLC

VARIABLES
  pc,          \* where the run is: "new", "idle" (between generations),
               \* "explore", "evolve", "maintain" (inside _advance),
               \* "failed" (an exception left _advance); or, for a single
               \* function under test, "insert", "call", "returned"
  gen,         \* generations completed
  pop,         \* self.pop, the published population
  pc_pop,      \* self.pc_pop
  npc_pop,     \* self.npc_pop
  ideal,       \* self.ideal
  pc_capacity, \* self.pc_capacity
  prom,        \* promising_index of the current generation
  kpos,        \* the exploration loop's next position in prom (1-based)
  todo,        \* subproblems the NPC loop has not visited yet
  off,         \* the last offspring evaluated (0: none)
  focal,       \* the subproblem i of the last _replace (0: the last NPC
               \* update was update_NPCpop, or there was none)
  niche,       \* what the last niche-radius computation gave
  merged,      \* the merged, deduplicated population of the last step 3
  evaluated,   \* history: the objective vectors evaluated so far
  npc_prev,    \* history: self.npc_pop before the last NPC update
  pc_prev      \* history: the archive handed to the last call under test

vars == <<pc, gen, pop, pc_pop, npc_pop, ideal, pc_capacity, prom, kpos, todo,
          off, focal, niche, merged, evaluated, npc_prev, pc_prev>>

\* ---------------------------------------------------------------- bounds
\* generations a run performs
MaxGen == 2
\* longest population handed to maintain_PCpop / update_PCpop on their own
MaxLen == 3
\* fixed-point resolution of a distance
SCALE == 100
\* fixed-point resolution of a product of distance ratios
PREC == 10000

\* ------------------------------------------------------- problem and setup
\* evaluator.eval: the objective vector of each decision vector (two
\* decision vectors, 2 and 4, evaluate to the same objective vector)
EvalTable ==
  << <<0, 2>>, <<1, 1>>, <<2, 0>>, <<1, 1>>, <<2, 2>>, <<0, 0>> >>

Inds == 1..Len(EvalTable)

F(x) == EvalTable[x]

NObj == Len(EvalTable[1])

Objs == 1..NObj

\* the reference directions (weight vectors) given to the constructor
ref_dirs == << <<1, 5>>, <<3, 3>>, <<4, 2>> >>

\* self.pc_capacity = len(ref_dirs); also pop_size
C == Len(ref_dirs)

\* the n_neighbors argument of the constructor
n_neighbors_arg == 2

\* np.inf
Inf == 2^30

\* ------------------------------------------------------------ arithmetic
Min2(a, b) == IF a <= b THEN a ELSE b

Range(s) == {s[i] : i \in 1..Len(s)}

RECURSIVE SumSeq(_)
SumSeq(s) == IF s = <<>> THEN 0 ELSE s[1] + SumSeq(Tail(s))

RECURSIVE ProdSeq(_)
ProdSeq(s) == IF s = <<>> THEN 1 ELSE s[1] * ProdSeq(Tail(s))

SetMin(S) == CHOOSE m \in S : \A v \in S : m <= v

SetMax(S) == CHOOSE m \in S : \A v \in S : m >= v

RECURSIVE IsqrtIter(_, _, _)
IsqrtIter(n, lo, hi) ==
  IF lo >= hi THEN lo
  ELSE LET mid == (lo + hi + 1) \div 2
       IN IF mid * mid <= n THEN IsqrtIter(n, mid, hi)
          ELSE IsqrtIter(n, lo, mid - 1)

\* floor of the square root
Isqrt(n) == IsqrtIter(n, 0, Min2(n, 46340))

\* the sequence s itself, as a tuple of its members
Tup(s) == SubSeq(s, 1, Len(s))

\* the subsequence of s at the (1-based) positions idx, in that order
RECURSIVE Pick(_, _)
Pick(s, idx) ==
  IF idx = <<>> THEN <<>> ELSE <<s[idx[1]]>> \o Pick(s, Tail(idx))

\* the ascending sequence of the members of a set of integers
RECURSIVE Ascending(_)
Ascending(S) ==
  IF S = {} THEN <<>>
  ELSE LET m == SetMin(S) IN <<m>> \o Ascending(S \ {m})

\* np.delete(index, del_ind): the positions 1..n without those of D, ascending
Keep(n, D) == Ascending((1..n) \ D)

\* ------------------------------------------------------------- dominance
\* Dominator.get_relation(a, b): 1 a dominates b, -1 b dominates a, else 0
get_relation(a, b) ==
  LET aBetter == \E k \in Objs : a[k] < b[k]
      bBetter == \E k \in Objs : b[k] < a[k]
  IN IF aBetter /\ ~bBetter THEN 1
     ELSE IF bBetter /\ ~aBetter THEN -1
     ELSE 0

Dominates(a, b) == get_relation(a, b) = 1

\* NonDominatedSorting().do(...)[0]: the positions of front 0, ascending
Front0(P) ==
  Ascending({i \in 1..Len(P) :
               ~ \E j \in 1..Len(P) : Dominates(F(P[j]), F(P[i]))})

\* np.min(pop.get("F"), axis=0)
ColMin(P) == [k \in Objs |-> SetMin({F(P[i])[k] : i \in 1..Len(P)})]

ColMax(P) == [k \in Objs |-> SetMax({F(P[i])[k] : i \in 1..Len(P)})]

\* ---------------------------------------------------------- normalisation
\* A normalised population: num[i][k] / den[k] is objective k of member i.

\* normalize_pop(pop)
normalize_pop(P) ==
  LET fmax == ColMax(P)
      fmin == ColMin(P)
  IN [den |-> Tup([k \in Objs |-> IF fmax[k] = fmin[k] THEN 1
                                   ELSE fmax[k] - fmin[k]]),
      num |-> Tup([i \in 1..Len(P) |->
                 Tup([k \in Objs |-> IF fmax[k] = fmin[k] THEN 0
                                     ELSE F(P[i])[k] - fmin[k]])])]

\* normalize_bothpop(pc_pop, npc_pop): both scaled by the columns of PC
normalize_bothpop(PCp, NPCp) ==
  LET fmax == ColMax(PCp)
      fmin == ColMin(PCp)
  IN [den |-> Tup([k \in Objs |-> IF fmax[k] = fmin[k] THEN 1
                                   ELSE fmax[k] - fmin[k]]),
      pc  |-> Tup([i \in 1..Len(PCp) |->
                 Tup([k \in Objs |-> IF fmax[k] = fmin[k] THEN 0
                                     ELSE F(PCp[i])[k] - fmin[k]])]),
      npc |-> Tup([i \in 1..Len(NPCp) |->
                 Tup([k \in Objs |-> F(NPCp[i])[k] - fmin[k]])])]

\* one entry of cdist(A, B, 'euclidean'), in units of 1/SCALE
Dist(p, q, den) ==
  LET all == ProdSeq(den)
      sq  == [k \in Objs |->
                ((p[k] - q[k]) * (all \div den[k]))
              * ((p[k] - q[k]) * (all \div den[k]))]
  IN Isqrt((SCALE * SCALE * SumSeq(sq)) \div (all * all))

cdist(A, B, den) ==
  Tup([i \in 1..Len(A) |-> Tup([j \in 1..Len(B) |-> Dist(A[i], B[j], den)])])

\* d[d == 0] = np.inf
ZeroToInf(d) ==
  Tup([i \in 1..Len(d) |->
     Tup([j \in 1..Len(d[i]) |-> IF d[i][j] = 0 THEN Inf ELSE d[i][j]])])

\* ------------------------------------------------------------ niche radius
k_closest == 3

\* np.sort of one row
RECURSIVE SortRow(_)
SortRow(row) ==
  IF row = <<>> THEN <<>>
  ELSE LET m == SetMin(Range(row))
           p == CHOOSE i \in 1..Len(row) : row[i] = m
       IN <<m>> \o SortRow(SubSeq(row, 1, p - 1)
                              \o SubSeq(row, p + 1, Len(row)))

\* np.mean(closest_dist, axis=0), each entry as the column sum (the mean
\* times pc_size); a column holding np.inf has mean np.inf
ave_dist(d, pc_size) ==
  LET srt  == Tup([i \in 1..pc_size |-> SortRow(d[i])])
      size == Min2(k_closest, pc_size)
  IN Tup([j \in 1..size |->
        IF \E i \in 1..pc_size : srt[i][j] >= Inf THEN Inf
        ELSE SumSeq([i \in 1..pc_size |-> srt[i][j]])])

\* the loop of determine_radius from the (0-based) position j: a negative
\* j indexes from the end, and a position before -size raises IndexError
RECURSIVE RadiusLoop(_, _, _)
RadiusLoop(ave, j, low) ==
  IF j < -Len(ave) THEN [ok |-> FALSE, j |-> j, low |-> low, num |-> Inf]
  ELSE LET v == IF j >= 0 THEN ave[j + 1] ELSE ave[Len(ave) + j + 1]
       IN IF v >= Inf THEN RadiusLoop(ave, j - 1, Min2(low, j - 1))
          ELSE [ok |-> TRUE, j |-> j, low |-> low, num |-> v]

\* determine_radius(d, pc_size, pc_capacity): ok = it returned; num is the
\* radius times pc_size; j the position returned; low the lowest position
\* the loop indexed
determine_radius(d, pc_size, capacity) ==
  LET ave == ave_dist(d, pc_size)
      j0  == Min2(k_closest, pc_size) - 1
  IN RadiusLoop(ave, j0, j0)

\* -------------------------------------------------------------- PC archive
\* update_PCpop(pc_pop, off): every branch of the scan's body leaves the
\* loop, so only member 0 is compared with the offspring
update_PCpop(pcp, o) ==
  IF Len(pcp) = 0 THEN <<o>>
  ELSE LET flag == get_relation(F(o), F(pcp[1]))
       IN IF flag = 1 THEN Tail(pcp) \o <<o>>
          ELSE IF flag = -1 THEN pcp
          ELSE pcp \o <<o>>

\* np.prod(d, axis=1) of row i over the members idx still in the archive,
\* with d = distance / radius where distance < radius, else 1
RECURSIVE RowProd(_, _, _, _, _)
RowProd(row, idx, num, den, acc) ==
  IF idx = <<>> THEN acc
  ELSE LET e == row[idx[1]]
       IN RowProd(row, Tail(idx), num, den,
                  IF e < Inf /\ e * den < num THEN (acc * (e * den)) \div num
                  ELSE acc)

\* the while loop of maintain_PCpop: idx are the positions of the input
\* still in the archive; the set of archives the loop can end with
RECURSIVE MaintainLoop(_, _, _, _, _, _)
MaintainLoop(P, distance, num, den, idx, cap) ==
  IF Len(idx) <= cap THEN {Pick(P, idx)}
  ELSE LET crowd_degree ==
             Tup([t \in 1..Len(idx) |->
                PREC - RowProd(distance[idx[t]], idx, num, den, PREC)])
           max_crowding == SetMax(Range(crowd_degree))
       IN IF max_crowding = 0
          THEN {Pick(P, Pick(idx, Keep(Len(idx), D))) : D \in
                  {D \in SUBSET (1..Len(idx)) :
                     Cardinality(D) = Len(idx) - cap}}
          ELSE LET del_ind == SetMin({t \in 1..Len(idx) :
                                        crowd_degree[t] = max_crowding})
               IN MaintainLoop(P, distance, num, den,
                               Pick(idx, Keep(Len(idx), {del_ind})), cap)

\* maintain_PCpop(PCPop, pc_capacity): ok = it returned; out = the archives
\* it can return (the batch removal is random); radius = what its call of
\* determine_radius gave
maintain_PCpop(PCPop, capacity) ==
  LET nrm      == normalize_pop(PCPop)
      pc_size  == Len(PCPop)
      distance == ZeroToInf(cdist(nrm.num, nrm.num, nrm.den))
      radius   == determine_radius(distance, pc_size, capacity)
  IN IF ~radius.ok THEN [ok |-> FALSE, radius |-> radius, out |-> {}]
     ELSE [ok |-> TRUE, radius |-> radius,
           out |-> MaintainLoop(PCPop, distance, radius.num, pc_size,
                                Tup([i \in 1..pc_size |-> i]), capacity)]

\* ---------------------------------------------------------- decomposition
\* decomp.do for one objective vector and one weight vector (Tchebicheff2):
\* max_k |f_k - z_k| / w_k, here times the product of the weights of w
Decomp(f, w, z) ==
  SetMax({(IF f[k] >= z[k] THEN f[k] - z[k] ELSE z[k] - f[k])
            * (ProdSeq(w) \div w[k]) : k \in Objs})

\* self.neighbors[i]: the n_neighbors subproblems nearest to i by the
\* distance of their weight vectors, nearest first (the squared distance
\* orders as the distance does)
WDist2(i, j) ==
  SumSeq([k \in Objs |-> (ref_dirs[i][k] - ref_dirs[j][k])
                         * (ref_dirs[i][k] - ref_dirs[j][k])])

n_neighbors == Min2(C, n_neighbors_arg)

RECURSIVE ArgSort(_, _)
ArgSort(i, S) ==
  IF S = {} THEN <<>>
  ELSE LET j == CHOOSE a \in S : \A b \in S :
                   WDist2(i, a) < WDist2(i, b)
                   \/ (WDist2(i, a) = WDist2(i, b) /\ a <= b)
       IN <<j>> \o ArgSort(i, S \ {j})

neighbors == [i \in 1..C |-> SubSeq(ArgSort(i, 1..C), 1, n_neighbors)]

\* nr = math.ceil(pop_size / 100)
nr == (C + 99) \div 100

\* np.where(off_FV < FV)[0] over the subproblems idx: the positions of idx
\* at which the offspring is strictly better, ascending
Better(npc, o, ideal_point, idx) ==
  Ascending({t \in 1..Len(idx) :
               Decomp(F(o), ref_dirs[idx[t]], ideal_point)
                 < Decomp(F(npc[idx[t]]), ref_dirs[idx[t]], ideal_point)})

\* update_NPCpop that adds the offspring as a new slot
update_NPCpop_appends(npc, o, ideal_point) ==
  LET I == Better(npc, o, ideal_point, [i \in 1..Len(npc) |-> i])
  IN IF Len(I) > 0 THEN {Append(npc, o)} ELSE {npc}

\* update_NPCpop that overwrites every slot of I
update_NPCpop_all(npc, o, ideal_point) ==
  LET I == Better(npc, o, ideal_point, [i \in 1..Len(npc) |-> i])
  IN {Tup([s \in 1..Len(npc) |-> IF s \in Range(I) THEN o ELSE npc[s]])}

\* update_NPCpop(npc_pop, off, ideal_point, ref_dirs, decomp): the NPC
\* populations it can return (the slot is drawn at random from I)
update_NPCpop(npc, o, ideal_point) ==
  LET I == Better(npc, o, ideal_point, [i \in 1..Len(npc) |-> i])
  IN IF Len(I) > 0 THEN {[npc EXCEPT ![I[t]] = o] : t \in 1..Len(I)}
     ELSE {npc}

\* _replace without the cut I[:nr]
Replace_unbounded(npc, ideal_point, i, o) ==
  LET N  == neighbors[i]
      I  == Better(npc, o, ideal_point, N)
      hit == {N[I[t]] : t \in 1..Len(I)}
  IN Tup([s \in 1..Len(npc) |-> IF s \in hit THEN o ELSE npc[s]])

\* BCEMOEAD._replace(i, off)
Replace(npc, ideal_point, i, o) ==
  LET N  == neighbors[i]
      I  == Better(npc, o, ideal_point, N)
      hit == {N[I[t]] : t \in 1..Min2(nr, Len(I))}
  IN Tup([s \in 1..Len(npc) |-> IF s \in hit THEN o ELSE npc[s]])

\* eliminate_duplicates.do(pop): the first of every decision vector
Dedup(P) ==
  Pick(P, Ascending({i \in 1..Len(P) : \A j \in 1..(i - 1) : P[j] # P[i]}))

\* an ideal point the offspring does not update
IdealUpdate_keeps(ideal_point, o) == ideal_point

\* the new ideal point: np.min(np.vstack([self.ideal, off.get("F")]), axis=0)
IdealUpdate(ideal_point, o) ==
  [k \in Objs |-> Min2(ideal_point[k], F(o)[k])]

\* ------------------------------------------------------------------- run
\* the initial populations tried, of the populations of pop_size distinct
\* individuals the sampling can produce
InitPops ==
  {<<1, 2, 5>>, <<2, 4, 5>>, <<1, 2, 3>>, <<5, 3, 1>>, <<6, 5, 3>>,
   <<3, 5, 4>>}

\* the decision vectors tried as offspring, of those crossover and
\* mutation can produce
Offspring == {1, 2, 4, 5, 6}

NoRadius == [called |-> FALSE, ok |-> TRUE, j |-> 0, low |-> 0, num |-> 0,
             den |-> 1]

RadiusOf(r, n) == [called |-> TRUE, ok |-> r.ok, j |-> r.j, low |-> r.low,
                   num |-> r.num, den |-> n]

\* BCEMOEAD.__init__
Init ==
  /\ pc = "new"
  /\ gen = 0
  /\ pop = <<>>
  /\ pc_pop = <<>>
  /\ npc_pop = <<>>
  /\ ideal = <<>>
  /\ pc_capacity = C
  /\ prom = <<>>
  /\ kpos = 1
  /\ todo = {}
  /\ off = 0
  /\ focal = 0
  /\ niche = NoRadius
  /\ merged = <<>>
  /\ evaluated = {}
  /\ npc_prev = <<>>
  /\ pc_prev = <<>>

\* BCEMOEAD._initialize_advance
InitializeAdvance ==
  /\ pc = "new"
  /\ \E P \in InitPops :
       /\ pop' = P
       /\ ideal' = ColMin(P)
       /\ npc_pop' = P
       /\ pc_pop' = Pick(P, Front0(P))
       /\ evaluated' = {F(P[i]) : i \in 1..Len(P)}
  /\ pc' = "idle"
  /\ UNCHANGED <<gen, pc_capacity, prom, kpos, todo, off, focal, niche,
                 merged, npc_prev, pc_prev>>

\* promising_index: the PC members with at most one NPC member within
\* r = pc_size / pc_capacity * radius
promising_index(PCp, NPCp, cap, rad) ==
  LET nb == normalize_bothpop(PCp, NPCp)
      d2 == cdist(nb.pc, nb.npc, nb.den)
      count == [i \in 1..Len(PCp) |->
                  Cardinality({j \in 1..Len(NPCp) :
                     d2[i][j] * rad.den * cap <= Len(PCp) * rad.num})]
  IN Ascending({i \in 1..Len(PCp) : count[i] <= 1})

\* the radius of _advance: 0 for one member, else determine_radius
AdvanceRadius(PCp, NPCp, cap) ==
  LET nb == normalize_bothpop(PCp, NPCp)
      d  == ZeroToInf(cdist(nb.pc, nb.pc, nb.den))
  IN IF Len(PCp) = 1 THEN NoRadius
     ELSE RadiusOf(determine_radius(d, Len(PCp), cap), Len(PCp))

\* _advance up to the exploration loop: normalise, radius, promising set
AdvanceBegin ==
  /\ pc = "idle"
  /\ gen < MaxGen
  /\ LET rad == AdvanceRadius(pc_pop, npc_pop, pc_capacity)
     IN /\ niche' = rad
        /\ IF ~rad.ok
           THEN /\ pc' = "failed"
                /\ UNCHANGED <<prom, kpos, todo>>
           ELSE LET pi == promising_index(pc_pop, npc_pop, pc_capacity, rad)
                IN /\ prom' = pi
                   /\ kpos' = 1
                   /\ pc' = IF pi = <<>> THEN "evolve" ELSE "explore"
                   /\ todo' = IF pi = <<>> THEN 1..Len(npc_pop) ELSE {}
  /\ UNCHANGED <<gen, pop, pc_pop, npc_pop, ideal, pc_capacity, off, focal,
                 merged, evaluated, npc_prev, pc_prev>>

\* one pass of the exploration loop: an offspring of a promising member
\* (any decision vector the operators can produce), update_PCpop, the
\* ideal point, update_NPCpop
ExploreStep ==
  /\ pc = "explore"
  /\ \E o \in Offspring :
       LET z == IdealUpdate(ideal, o)
       IN /\ off' = o
          /\ evaluated' = evaluated \cup {F(o)}
          /\ pc_pop' = update_PCpop(pc_pop, o)
          /\ ideal' = z
          /\ npc_pop' \in update_NPCpop(npc_pop, o, z)
  /\ npc_prev' = npc_pop
  /\ focal' = 0
  /\ kpos' = kpos + 1
  /\ pc' = IF kpos = Len(prom) THEN "evolve" ELSE "explore"
  /\ todo' = IF kpos = Len(prom) THEN 1..Len(npc_pop) ELSE {}
  /\ UNCHANGED <<gen, pop, pc_capacity, prom, niche, merged, pc_prev>>

\* one pass of the NPC loop, for a subproblem i not visited yet (the order
\* is a random permutation): offspring, update_PCpop, ideal point, _replace.
\* self.mating.do eliminates the offspring that duplicate a member of the
\* population it mates (the eliminate_duplicates given to the constructor),
\* so the offspring is no member of NPC
EvolveStep ==
  /\ pc = "evolve"
  /\ \E i \in todo, o \in Offspring \ Range(npc_pop) :
       LET z == IdealUpdate(ideal, o)
       IN /\ off' = o
          /\ focal' = i
          /\ evaluated' = evaluated \cup {F(o)}
          /\ pc_pop' = update_PCpop(pc_pop, o)
          /\ ideal' = z
          /\ npc_pop' = Replace(npc_pop, z, i, o)
          /\ todo' = todo \ {i}
          /\ pc' = IF todo = {i} THEN "maintain" ELSE "evolve"
  /\ npc_prev' = npc_pop
  /\ UNCHANGED <<gen, pop, pc_capacity, prom, kpos, niche, merged, pc_prev>>

\* step 3 of _advance: merge, deduplicate, front 0 and maintain_PCpop when
\* over capacity, publish; the locals of _advance end with it
MaintainStep ==
  /\ pc = "maintain"
  /\ LET m == Dedup((pc_pop \o npc_pop) \o pop)
         f == Pick(m, Front0(m))
         res == maintain_PCpop(f, pc_capacity)
     IN /\ merged' = m
        /\ IF Len(m) > pc_capacity /\ Len(f) > pc_capacity /\ ~res.ok
           THEN /\ pc_pop' = f
                /\ niche' = RadiusOf(res.radius, Len(f))
                /\ pc' = "failed"
                /\ UNCHANGED <<pop, gen, prom, kpos, off, focal, npc_prev>>
           ELSE /\ pc_pop' \in
                     IF Len(m) > pc_capacity
                     THEN IF Len(f) > pc_capacity THEN res.out ELSE {f}
                     ELSE {pc_pop}
                /\ niche' =
                     IF Len(m) > pc_capacity /\ Len(f) > pc_capacity
                     THEN RadiusOf(res.radius, Len(f)) ELSE niche
                /\ pop' = pc_pop'
                /\ gen' = gen + 1
                /\ pc' = "idle"
                /\ prom' = <<>>
                /\ kpos' = 1
                /\ off' = 0
                /\ focal' = 0
                /\ npc_prev' = <<>>
  /\ UNCHANGED <<npc_pop, ideal, pc_capacity, todo, evaluated, pc_prev>>

Next ==
  \/ InitializeAdvance
  \/ AdvanceBegin
  \/ ExploreStep
  \/ EvolveStep
  \/ MaintainStep

Spec == Init /\ [][Next]_vars

\* --------------------------------------- update_PCpop called on its own
\* the archives of at most MaxLen distinct members no two of which are
\* related by strict dominance
NonDominated(P) ==
  \A i, j \in 1..Len(P) : ~Dominates(F(P[i]), F(P[j]))

Archives ==
  {P \in UNION {[1..n -> Inds] : n \in 1..MaxLen} :
     /\ NonDominated(P)
     /\ \A i, j \in 1..Len(P) : P[i] = P[j] => i = j}

InitInsert ==
  /\ pc = "insert"
  /\ pc_pop \in Archives
  /\ gen = 0
  /\ pop = <<>>
  /\ npc_pop = <<>>
  /\ ideal = <<>>
  /\ pc_capacity = C
  /\ prom = <<>>
  /\ kpos = 1
  /\ todo = {}
  /\ off = 0
  /\ focal = 0
  /\ niche = NoRadius
  /\ merged = <<>>
  /\ evaluated = {}
  /\ npc_prev = <<>>
  /\ pc_prev = <<>>

\* pc_pop = update_PCpop(pc_pop, off), for any candidate
InsertCall ==
  /\ pc = "insert"
  /\ Len(pc_pop) <= MaxLen
  /\ \E o \in Inds :
       /\ off' = o
       /\ pc_pop' = update_PCpop(pc_pop, o)
  /\ pc_prev' = pc_pop
  /\ UNCHANGED <<pc, gen, pop, npc_pop, ideal, pc_capacity, prom, kpos, todo,
                 focal, niche, merged, evaluated, npc_prev>>

NextInsert == InsertCall

SpecInsert == InitInsert /\ [][NextInsert]_vars

\* ------------------------------------- maintain_PCpop called on its own
Inputs == UNION {[1..n -> Inds] : n \in 1..MaxLen}

InitMaintain ==
  /\ pc = "call"
  /\ pc_prev \in Inputs
  /\ pc_capacity \in 1..MaxLen
  /\ pc_pop = <<>>
  /\ gen = 0
  /\ pop = <<>>
  /\ npc_pop = <<>>
  /\ ideal = <<>>
  /\ prom = <<>>
  /\ kpos = 1
  /\ todo = {}
  /\ off = 0
  /\ focal = 0
  /\ niche = NoRadius
  /\ merged = <<>>
  /\ evaluated = {}
  /\ npc_prev = <<>>

\* pc_pop = maintain_PCpop(pc_prev, pc_capacity)
MaintainCall ==
  /\ pc = "call"
  /\ LET res == maintain_PCpop(pc_prev, pc_capacity)
     IN /\ niche' = RadiusOf(res.radius, Len(pc_prev))
        /\ pc' = IF res.ok THEN "returned" ELSE "failed"
        /\ pc_pop' \in IF res.ok THEN res.out ELSE {pc_pop}
  /\ UNCHANGED <<gen, pop, npc_pop, ideal, pc_capacity, prom, kpos, todo,
                 off, focal, merged, evaluated, npc_prev, pc_prev>>

NextMaintain == MaintainCall

SpecMaintain == InitMaintain /\ [][NextMaintain]_vars

\* ------------------------------------------------------------------ claims
InRun == pc \in {"idle", "explore", "evolve", "maintain", "failed"}

\* the NPC slots the last NPC update changed
Changed == {t \in 1..Len(npc_prev) : npc_pop[t] # npc_prev[t]}

\* the offspring's scalarized value is strictly smaller than that of the
\* incumbent of subproblem t before the last NPC update, under t's weights
Beats(t) ==
  Decomp(F(off), ref_dirs[t], ideal)
    < Decomp(F(npc_prev[t]), ref_dirs[t], ideal)

\* C1: starting from an archive no two members of which are related by
\* strict dominance, after any sequence of update_PCpop calls no two members
\* of the archive are related by strict dominance.
C1_InsertKeepsNonDominated ==
  pc = "insert" => NonDominated(pc_pop)

\* C2: at the end of every generation step the PC population has at most
\* C = len(ref_dirs) members and the published population has exactly the
\* members of the PC population.
C2_CapacityAtGenerationEnd ==
  (pc = "idle" /\ gen > 0) =>
     /\ Len(pc_pop) <= Len(ref_dirs)
     /\ pop = pc_pop

\* C3: the NPC population has exactly C = len(ref_dirs) members before,
\* during and after every generation step: update_NPCpop, _replace and the
\* final merge only overwrite slots.
C3_NPCSizeFixed ==
  InRun => Len(npc_pop) = Len(ref_dirs)

\* C3 witness: in a later generation, an NPC update has overwritten a slot
\* and NPC still has C members.
C3_Witness ==
  /\ InRun
  /\ gen >= 1
  /\ off # 0
  /\ Changed # {}
  /\ Len(npc_pop) = Len(ref_dirs)

\* C4: maintain_PCpop returns, for every input and capacity >= 1, at most
\* capacity members, each a member of the input, and the input unchanged
\* when it has at most capacity members.
C4_TruncateReturns ==
  pc \in {"returned", "failed"} =>
     /\ pc = "returned"
     /\ Len(pc_pop) <= pc_capacity
     /\ \E idx \in SUBSET (1..Len(pc_prev)) :
          pc_pop = Pick(pc_prev, Ascending(idx))
     /\ (Len(pc_prev) <= pc_capacity => pc_pop = pc_prev)

\* the component-wise minimum of the objective vectors evaluated so far
MinEvaluated == [m \in Objs |-> SetMin({f[m] : f \in evaluated})]

C5_State ==
  InRun =>
     /\ ideal = MinEvaluated
     /\ (pc = "idle" =>
           \A m \in Objs :
             /\ \A i \in 1..Len(pc_pop) : ideal[m] <= F(pc_pop[i])[m]
             /\ \A i \in 1..Len(npc_pop) : ideal[m] <= F(npc_pop[i])[m])

C5_Step ==
  InRun => \A m \in Objs : ideal'[m] <= ideal[m]

\* C5: at every point of a run the ideal point is the component-wise minimum
\* of the objective vectors of the initial population and of every offspring
\* evaluated so far; no component ever increases; and at each generation
\* boundary the ideal point is component-wise <= the objective vector of
\* every PC and NPC member.
C5_IdealPoint == [](C5_State) /\ [][C5_Step]_vars

\* C5 witness: an offspring has lowered a component of the ideal point below
\* the minimum over the initial population.
C5_Witness ==
  /\ InRun
  /\ gen = 0
  /\ off # 0
  /\ \E m \in Objs : ideal[m] < ColMin(pop)[m] /\ ideal[m] = F(off)[m]

\* C6: when the merged, deduplicated population of step 3 has at most C
\* members, the new PC and the published population are exactly that
\* population.
C6_MergedBecomesPC ==
  (pc = "idle" /\ gen > 0 /\ Len(merged) <= Len(ref_dirs)) =>
     /\ Range(pc_pop) = Range(merged)
     /\ Len(pc_pop) = Len(merged)
     /\ pop = pc_pop

\* C7: when update_PCpop is called with a candidate that strictly dominates
\* every member of an archive of size >= 1, the result is the candidate
\* alone.
C7_DominatingCandidateAlone ==
  (/\ pc = "insert"
   /\ off # 0
   /\ Len(pc_prev) >= 1
   /\ \A i \in 1..Len(pc_prev) : Dominates(F(off), F(pc_prev[i])))
  => pc_pop = <<off>>

\* the positions of neighbors[focal], in neighbor order, at which the
\* offspring beat the incumbent before the last _replace
Eligible == {t \in 1..Len(neighbors[focal]) : Beats(neighbors[focal][t])}

\* the earliest nr of them
Earliest ==
  {t \in Eligible : Cardinality({u \in Eligible : u < t}) < nr}

\* C8: _replace(i, off) changes at most nr = ceil(C/100) NPC slots; every
\* changed slot is in neighbors[i], is among the earliest nr positions in
\* neighbor order at which the offspring's scalarized value is strictly
\* smaller than the incumbent's, and holds the offspring; every other slot
\* is unchanged.
C8_BoundedReplacement ==
  (InRun /\ focal # 0) =>
     /\ Len(npc_pop) = Len(npc_prev)
     /\ Cardinality(Changed) <= (Len(ref_dirs) + 99) \div 100
     /\ \A s \in Changed :
          /\ npc_pop[s] = off
          /\ \E t \in Earliest : neighbors[focal][t] = s

\* C8 witness: the offspring beat more than nr neighbors and _replace changed
\* a slot.
C8_Witness ==
  /\ InRun
  /\ focal # 0
  /\ Cardinality(Eligible) > nr
  /\ Changed # {}

\* the last NPC update was update_NPCpop
AfterGlobal == InRun /\ off # 0 /\ focal = 0

\* C9: update_NPCpop changes at most one NPC slot: when the offspring beats
\* the incumbent of some subproblem, exactly one slot is overwritten with
\* the offspring, and it is one of those subproblems; otherwise NPC is
\* unchanged.
C9_GlobalUpdateOneSlot ==
  AfterGlobal =>
     LET elig == {t \in 1..Len(npc_prev) : Beats(t)}
     IN /\ Len(npc_pop) = Len(npc_prev)
        /\ IF elig = {} THEN npc_pop = npc_prev
           ELSE \E s \in elig : Changed = {s} /\ npc_pop[s] = off

\* C9 witness: the offspring beat two subproblems or more and one slot was
\* overwritten.
C9_Witness ==
  /\ AfterGlobal
  /\ Cardinality({t \in 1..Len(npc_prev) : Beats(t)}) >= 2
  /\ Cardinality(Changed) = 1

\* C10: every niche-radius computation of a run returns normally, with a
\* finite value, the rank average at the largest position whose average is
\* finite, without stepping to a position before 0.
C10_RadiusReturns ==
  (InRun /\ niche.called) =>
     /\ niche.ok
     /\ niche.low >= 0
     /\ niche.j >= 0
     /\ niche.num < Inf

====
